---- MODULE Spec2Model ----
(***************************************************************************)
(* Model of the Anushandhan backend: the TTL cache and the GitHub fetch    *)
(* that uses it (utils/cache.py, services/paper_generator.py), the paper   *)
(* job handlers of main.py with the router endpoint that shares their      *)
(* path (api/research_generator.py), the generation pipeline               *)
(* ResearchPaperGenerator.generate_research_paper, and the chats and       *)
(* session handlers (api/chats.py, api/auth.py).                           *)
(***************************************************************************)
EXTENDS Integers, Sequences, FiniteSets, TLC

VARIABLES
    cache,      \* CacheManager._cache of github_repo_cache: key -> entry
    now,        \* time.time()
    hist,       \* history: per key, the most recent set and whether it was cancelled
    cop,        \* the cache operation that ran last, with its result
    papers,     \* the MongoDB collection "papers": _id -> document
    paper_jobs, \* main.paper_jobs: document_id -> job
    tasks,      \* background_paper_generation tasks: document_id -> position, content
    nextId,     \* the uuid4 values handed out so far
    resp,       \* the handler or task step that ran last, with its answer
    gpc,        \* generate_research_paper: the position of the call
    greq,       \* its arguments
    gsections,  \* its local list `sections`
    gidx,       \* the index of the section loop
    gresult,    \* its local dict `result`
    gpending,   \* how the call goes on after the finally block
    gtmp,       \* the temporary directory of clone_repository
    gtrace,     \* the calls made so far, in order, each with its outcome
    gout,       \* the dictionary returned
    users,      \* the collection "users": googleId -> document
    chats_coll, \* the collection "chats", in insertion order
    chat_messages,   \* the collection "chat_messages"
    user_activities, \* the collection "user_activities", in insertion order
    sessions,   \* the collection "sessions", in insertion order
    cresp,      \* the chats or auth handler that ran last, with its answer
    csync,      \* history: per user, the list of the last sync_chats that
                \* succeeded, until the user's next sync, delete or title update
    dbfails     \* the database calls of the chats and auth handlers that raised

cacheVars == <<cache, now, hist, cop>>

apiVars == <<papers, paper_jobs, tasks, nextId, resp>>

genVars == <<gpc, greq, gsections, gidx, gresult, gpending, gtmp, gtrace, gout>>

acctVars == <<users, chats_coll, chat_messages, user_activities, sessions, cresp, csync,
              dbfails>>

vars == <<cache, now, hist, cop, papers, paper_jobs, tasks, nextId, resp,
          gpc, greq, gsections, gidx, gresult, gpending, gtmp, gtrace, gout,
          users, chats_coll, chat_messages, user_activities, sessions, cresp, csync,
          dbfails>>

\* what the operations of one part leave alone
notCache == <<apiVars, genVars, acctVars>>
notApi == <<cacheVars, genVars, acctVars>>
notGen == <<cacheVars, apiVars, acctVars>>
notAcct == <<cacheVars, apiVars, genVars>>

-----------------------------------------------------------------------------
(* Maps with a finite domain (Python dicts).                                *)

MapPut(m, k, v) == [x \in (DOMAIN m) \cup {k} |-> IF x = k THEN v ELSE m[x]]

MapDel(m, K) == [x \in (DOMAIN m) \ K |-> m[x]]

EmptyMap == [x \in {} |-> 0]

None == [tag |-> "None"]

-----------------------------------------------------------------------------
(* URLs.  A URL is what urlparse makes of it: scheme, netloc (a sequence    *)
(* of dot-separated labels) and the path segments between the slashes of    *)
(* path.strip('/').  A segment is a sequence of characters.                 *)

AlnumChars == {"o", "r", "e", "p", "s", "x", "1"}

Seg_repos == <<"r", "e", "p", "o", "s">>
Seg_o == <<"o">>
Seg_r == <<"r">>
Seg_bad == <<"-", "o">>
Seg_dot == <<"r", ".", "1">>

Url(scheme, netloc, path) == [scheme |-> scheme, netloc |-> netloc, path |-> path]

GitHubHost == <<"github", "com">>
ApiHost == <<"api", "github", "com">>
MixedHost == <<"GitHub", "com">>
OtherHost == <<"example", "com">>

Lower(label) == IF label = "GitHub" THEN "github" ELSE label

\* 'github.com' in parsed.netloc.lower()
ContainsGitHub(netloc) ==
    \E i \in 1..(Len(netloc) - 1) :
        Lower(netloc[i]) = "github" /\ Lower(netloc[i + 1]) = "com"

\* parsed.path.strip('/').split('/'): an empty path splits into one empty part
PathParts(url) == IF url.path = <<>> THEN << <<>> >> ELSE url.path

\* re.match(r'^[a-zA-Z0-9][-a-zA-Z0-9]*$', username)
UsernameMatch(s) ==
    /\ Len(s) >= 1
    /\ s[1] \in AlnumChars
    /\ \A i \in 2..Len(s) : s[i] \in AlnumChars \cup {"-"}

\* re.match(r'^[a-zA-Z0-9_.-]+$', repo)
RepoMatch(s) ==
    /\ Len(s) >= 1
    /\ \A i \in 1..Len(s) : s[i] \in AlnumChars \cup {"_", ".", "-"}

\* is_valid_github_url without the test that the host is GitHub's
is_valid_github_url_anyHost(url) ==
    /\ url # None
    /\ url.scheme # ""
    /\ url.netloc # <<>>
    /\ Len(PathParts(url)) >= 2
    /\ UsernameMatch(PathParts(url)[1])
    /\ RepoMatch(PathParts(url)[2])

is_valid_github_url(url) ==
    /\ url # None
    /\ url.scheme # ""
    /\ url.netloc # <<>>
    /\ ContainsGitHub(url.netloc)
    /\ Len(PathParts(url)) >= 2
    /\ UsernameMatch(PathParts(url)[1])
    /\ RepoMatch(PathParts(url)[2])

extract_github_info(url) ==
    IF is_valid_github_url(url)
    THEN <<PathParts(url)[1], PathParts(url)[2]>>
    ELSE <<None, None>>

\* f"https://api.github.com/repos/{owner}/{repo}"
ApiUrl(owner, repo) == Url("https", ApiHost, <<Seg_repos, owner, repo>>)

U_plain == Url("https", GitHubHost, <<Seg_o, Seg_r>>)
U_api == Url("https", ApiHost, <<Seg_repos, Seg_o, Seg_r>>)
U_fix == Url("https", ApiHost, <<Seg_repos, Seg_repos, Seg_repos>>)
U_mixed == Url("https", MixedHost, <<Seg_o, Seg_dot>>)
U_other == Url("https", OtherHost, <<Seg_o, Seg_r>>)
U_short == Url("https", GitHubHost, <<Seg_o>>)
U_badname == Url("https", GitHubHost, <<Seg_bad, Seg_r>>)
U_noscheme == Url("", <<>>, <<Seg_o, Seg_r>>)

ValidUrls == {U_plain, U_api, U_fix, U_mixed}
InvalidUrls == {U_other, U_short, U_badname, U_noscheme}

-----------------------------------------------------------------------------
(* CacheManager (utils/cache.py).                                           *)

DefaultTtl == 3600

\* how far the sampled clock readings go past 0 and past the default ttl
MaxSkew == 1

\* the readings of time.time() the model draws from
Times == (0..MaxSkew) \cup {DefaultTtl + i : i \in 0..MaxSkew}

\* the ttl argument of set when it is left out (ttl=None)
TtlNone == -1

Ttls == {TtlNone, 1}

\* f"github_repo:{repo_url}"
CacheKey(url) == [prefix |-> "github_repo", url |-> url]

RepoData(owner, repo) == [tag |-> "data", owner |-> owner, repo |-> repo]

DirectKeys == {CacheKey(U_plain), CacheKey(U_api)}

DirectValues == {RepoData(Seg_o, Seg_r), RepoData(Seg_r, Seg_o)}

Keys == DirectKeys \cup {CacheKey(u) : u \in ValidUrls}
           \cup {CacheKey(ApiUrl(extract_github_info(u)[1], extract_github_info(u)[2])) :
                    u \in ValidUrls}

Expired(entry, t) == t > entry.expires_at

\* CacheManager.get with the expiry test off by one (>= for >)
CacheGet_expiresEarly(c, k, t) ==
    IF k \notin DOMAIN c
    THEN [value |-> None, cache |-> c]
    ELSE IF t >= c[k].expires_at
         THEN [value |-> None, cache |-> MapDel(c, {k})]
         ELSE [value |-> c[k].value, cache |-> c]

\* CacheManager.get: the value returned and the cache it leaves
CacheGet(c, k, t) ==
    IF k \notin DOMAIN c
    THEN [value |-> None, cache |-> c]
    ELSE IF Expired(c[k], t)
         THEN [value |-> None, cache |-> MapDel(c, {k})]
         ELSE [value |-> c[k].value, cache |-> c]

\* CacheManager.set
CacheSet(c, k, v, ttl, t) ==
    MapPut(c, k, [value |-> v,
                  expires_at |-> t + (IF ttl = TtlNone THEN DefaultTtl ELSE ttl)])

\* CacheManager.invalidate
CacheInvalidate(c, k) == IF k \in DOMAIN c THEN MapDel(c, {k}) ELSE c

\* CacheManager.clear
CacheClear(c) == EmptyMap

\* CacheManager.cleanup dropping the entries that expire at this very moment too
CacheCleanup_eager(c, t) == MapDel(c, {k \in DOMAIN c : t >= c[k].expires_at})

\* CacheManager.cleanup
CacheCleanup(c, t) == MapDel(c, {k \in DOMAIN c : Expired(c[k], t)})

(* The history kept beside the cache: what was set, when, with which ttl    *)
(* argument, and whether an invalidate or clear came after it.              *)
HistSet(h, k, v, ttl, t) ==
    [h EXCEPT ![k] = [tag |-> "set", value |-> v, at |-> t, ttl |-> ttl, cancelled |-> FALSE]]

HistCancel(h, K) ==
    [k \in Keys |-> IF k \in K /\ h[k] # None
                    THEN [h[k] EXCEPT !.cancelled = TRUE]
                    ELSE h[k]]

\* the record of an operation on the cache: cop
Cop(op, key, value, url, outcome, requested) ==
    [op |-> op, key |-> key, value |-> value, url |-> url,
     outcome |-> outcome, requested |-> requested, at |-> now]

Get(k) ==
    /\ cache' = CacheGet(cache, k, now).cache
    /\ cop' = Cop("get", k, CacheGet(cache, k, now).value, None, "returned", FALSE)
    /\ UNCHANGED <<now, hist>>
    /\ UNCHANGED notCache

Set(k, v, ttl) ==
    /\ cache' = CacheSet(cache, k, v, ttl, now)
    /\ hist' = HistSet(hist, k, v, ttl, now)
    /\ cop' = Cop("set", k, v, None, "returned", FALSE)
    /\ UNCHANGED now
    /\ UNCHANGED notCache

Invalidate(k) ==
    /\ cache' = CacheInvalidate(cache, k)
    /\ hist' = HistCancel(hist, {k})
    /\ cop' = Cop("invalidate", k, None, None, "returned", FALSE)
    /\ UNCHANGED now
    /\ UNCHANGED notCache

Clear ==
    /\ cache' = CacheClear(cache)
    /\ hist' = HistCancel(hist, Keys)
    /\ cop' = Cop("clear", None, None, None, "returned", FALSE)
    /\ UNCHANGED now
    /\ UNCHANGED notCache

Cleanup ==
    /\ cache' = CacheCleanup(cache, now)
    /\ cop' = Cop("cleanup", None, None, None, "returned", FALSE)
    /\ UNCHANGED <<now, hist>>
    /\ UNCHANGED notCache

\* time passes: the clock never goes back
Tick(t) ==
    /\ t > now
    /\ now' = t
    /\ UNCHANGED <<cache, hist, cop>>
    /\ UNCHANGED notCache

-----------------------------------------------------------------------------
(* GitHubPaperGenerator.fetch_repo_data (services/paper_generator.py).      *)

\* `if cached_data:`
Truthy(v) == v # None

\* the key of the lookup: cache_key is built from the argument repo_url
LookupKey(url) == CacheKey(url)

\* the key of the store: by then repo_url was rebound to the API address
StoreKey(url) ==
    CacheKey(ApiUrl(extract_github_info(url)[1], extract_github_info(url)[2]))

FetchUrls == ValidUrls \cup {U_other, U_short}

\* apiOk: whether the metadata, languages and commits requests all answer 200
fetch_repo_data(url, apiOk) ==
    /\ UNCHANGED notCache
    /\ LET g == CacheGet(cache, LookupKey(url), now)
           info == extract_github_info(url)
           result == RepoData(info[1], info[2])
       IN  IF ~is_valid_github_url(url)
           THEN /\ cop' = Cop("fetch", None, None, url, "raised", FALSE)
                /\ UNCHANGED <<cache, hist, now>>
           ELSE IF Truthy(g.value)
           THEN /\ cache' = g.cache
                /\ cop' = Cop("fetch", LookupKey(url), g.value, url, "returned", FALSE)
                /\ UNCHANGED <<hist, now>>
           ELSE IF apiOk
           THEN /\ cache' = CacheSet(g.cache, StoreKey(url), result, TtlNone, now)
                /\ hist' = HistSet(hist, StoreKey(url), result, TtlNone, now)
                /\ cop' = Cop("fetch", StoreKey(url), result, url, "returned", TRUE)
                /\ UNCHANGED now
           ELSE /\ cache' = g.cache
                /\ cop' = Cop("fetch", None, None, url, "raised", TRUE)
                /\ UNCHANGED <<hist, now>>

NextCache ==
    \/ \E k \in DirectKeys : Get(k)
    \/ \E k \in DirectKeys, v \in DirectValues, ttl \in Ttls : Set(k, v, ttl)
    \/ \E k \in DirectKeys : Invalidate(k)
    \/ Clear
    \/ Cleanup
    \/ \E t \in Times : Tick(t)


\* the cache as fetch_repo_data, its only client in the repository, uses it
NextFetch ==
    \/ \E url \in FetchUrls, apiOk \in BOOLEAN : fetch_repo_data(url, apiOk)
    \/ \E t \in Times : Tick(t)
    \/ Cleanup


-----------------------------------------------------------------------------
(* The paper job handlers of main.py and the router endpoint of             *)
(* api/research_generator.py.                                               *)

\* None in a field that otherwise holds a string, and in one that holds an id
NoneStr == "None"
NoId == 0

\* the number of paper requests the model follows
MaxDocs == 2

\* the empty string given as a URL
UrlEmpty == Url("", <<>>, <<>>)

\* `if x:` on an Optional[str] URL
UrlGiven(url) == url # None /\ url # UrlEmpty

Req(topic, hasTopic, sourceType, sourceUrl) ==
    [topic |-> topic, hasTopic |-> hasTopic, sourceType |-> sourceType, sourceUrl |-> sourceUrl]

\* request bodies: the router endpoint takes any dict (the topic may be
\* missing), PaperRequest needs a topic, which may be empty
RouterRequests ==
    {Req(t[1], t[2], st[1], st[2]) :
        t \in {<<"t", TRUE>>, <<"", TRUE>>, <<"", FALSE>>},
        st \in {<<NoneStr, None>>, <<"github", U_plain>>}}

PaperRequests ==
    {Req("t", TRUE, st[1], st[2]) :
        st \in {<<NoneStr, None>>, <<NoneStr, U_other>>, <<"github", None>>,
                 <<"github", UrlEmpty>>, <<"github", U_plain>>, <<"github", U_other>>}}
    \cup {Req("", TRUE, NoneStr, None)}

NoReq == Req("", FALSE, NoneStr, None)

Resp(handler, via, req, id, code, status, document_id, message, paper, detail, generated) ==
    [handler |-> handler, via |-> via, req |-> req, id |-> id, code |-> code,
     status |-> status, document_id |-> document_id, message |-> message,
     paper |-> paper, detail |-> detail, generated |-> generated]

\* what str(e) gives for the HTTPException(400, "Topic is required") caught at
\* research_generator.py:306: "400: Topic is required" where the exception
\* class defines __str__, the empty string where it does not
StrOfTopicError == {"400: Topic is required", ""}

\* the router endpoint generate_research_paper (research_generator.py:267-308);
\* genOk: whether generator.generate_research_paper returned a paper
RouterEndpoint(via, req) ==
    /\ IF ~(req.hasTopic /\ req.topic # "")
       THEN \E errText \in StrOfTopicError :
               resp' = Resp("router.generate_research_paper", via, req, NoId, 500,
                            NoneStr, NoId, NoneStr, NoneStr, errText, FALSE)
       ELSE \E genOk \in BOOLEAN :
               IF genOk
               THEN resp' = Resp("router.generate_research_paper", via, req, NoId, 200,
                                 NoneStr, NoId, NoneStr, "paper", NoneStr, TRUE)
               ELSE resp' = Resp("router.generate_research_paper", via, req, NoId, 500,
                                 NoneStr, NoId, NoneStr, NoneStr, "generation error", TRUE)
    /\ UNCHANGED <<papers, paper_jobs, tasks, nextId>>
    /\ UNCHANGED notApi

\* line 246: the URL is checked when sourceType is 'github' and sourceUrl is truthy
NeedsUrlCheck(req) == req.sourceType = "github" /\ UrlGiven(req.sourceUrl)

\* main.generate_paper (main.py:229-291); dbOk: whether insert_one returned
GeneratePaperHandler(via, req) ==
    /\ UNCHANGED notApi
    /\ IF NeedsUrlCheck(req) /\ ~is_valid_github_url(req.sourceUrl)
       THEN /\ resp' = Resp("generate_paper", via, req, NoId, 500, NoneStr, NoId, NoneStr,
                            NoneStr, "Invalid GitHub repository URL format", FALSE)
            /\ UNCHANGED <<papers, paper_jobs, tasks, nextId>>
       ELSE /\ nextId < MaxDocs
            /\ nextId' = nextId + 1
            /\ \E dbOk \in BOOLEAN :
                  IF ~dbOk
                  THEN /\ resp' = Resp("generate_paper", via, req, NoId, 500, NoneStr,
                                       NoId, NoneStr, NoneStr, "db error", FALSE)
                       /\ UNCHANGED <<papers, paper_jobs, tasks>>
                  ELSE /\ papers' = MapPut(papers, nextId + 1,
                                           [status |-> "queued", paper_content |-> NoneStr,
                                            error |-> NoneStr])
                       /\ paper_jobs' = MapPut(paper_jobs, nextId + 1,
                                               [status |-> "processing", paper |-> NoneStr,
                                                message |-> NoneStr])
                       /\ tasks' = MapPut(tasks, nextId + 1,
                                          [pc |-> "scheduled", content |-> NoneStr])
                       /\ resp' = Resp("generate_paper", via, req, NoId, 200, "processing",
                                       nextId + 1, NoneStr, NoneStr, NoneStr, FALSE)

\* the routes of the application for POST /api/research/generate-paper, in the
\* order they were added: include_router(research_router) at main.py:30, then
\* @app.post at main.py:229
PostRoutes == <<"router.generate_research_paper", "generate_paper">>

\* the router of the framework calls the first route that matches
Dispatch(routes) == routes[1]

\* an HTTP POST to /api/research/generate-paper with a body PaperRequest accepts
HttpPostGeneratePaper(req) ==
    IF Dispatch(PostRoutes) = "generate_paper"
    THEN GeneratePaperHandler("http", req)
    ELSE RouterEndpoint("http", req)

\* the handlers called as functions
generate_paper(req) == GeneratePaperHandler("call", req)

generate_research_paper_endpoint(req) == RouterEndpoint("call", req)

\* a step of a background task answers nobody
TaskStep ==
    Resp("background_paper_generation", "task", NoReq, NoId, 0, NoneStr, NoId, NoneStr,
         NoneStr, NoneStr, FALSE)

\* background_paper_generation, lines 183-189: status -> processing
BgStart(d, dbOk) ==
    /\ d \in DOMAIN tasks /\ tasks[d].pc = "scheduled"
    /\ IF dbOk
       THEN /\ papers' = [papers EXCEPT ![d].status = "processing"]
            /\ tasks' = [tasks EXCEPT ![d].pc = "generating"]
       ELSE /\ tasks' = [tasks EXCEPT ![d].pc = "handling"]
            /\ UNCHANGED papers
    /\ resp' = TaskStep
    /\ UNCHANGED <<paper_jobs, nextId>>
    /\ UNCHANGED notApi

\* lines 192-199: generate_paper_content never raises; when the generator
\* fails it returns the text of an error paper (lines 127-146)
BgGenerate(d, genOk) ==
    /\ d \in DOMAIN tasks /\ tasks[d].pc = "generating"
    /\ tasks' = [tasks EXCEPT ![d] = [pc |-> "storing",
                                      content |-> IF genOk THEN "paper" ELSE "error paper"]]
    /\ resp' = TaskStep
    /\ UNCHANGED <<papers, paper_jobs, nextId>>
    /\ UNCHANGED notApi

\* lines 202-215: status -> completed, then the job in memory
BgStore(d, dbOk) ==
    /\ d \in DOMAIN tasks /\ tasks[d].pc = "storing"
    /\ IF dbOk
       THEN /\ papers' = [papers EXCEPT ![d].status = "completed",
                                        ![d].paper_content = tasks[d].content]
            /\ paper_jobs' = [paper_jobs EXCEPT ![d].status = "success",
                                                ![d].paper = tasks[d].content]
            /\ tasks' = [tasks EXCEPT ![d].pc = "done"]
       ELSE /\ tasks' = [tasks EXCEPT ![d].pc = "handling"]
            /\ UNCHANGED <<papers, paper_jobs>>
    /\ resp' = TaskStep
    /\ UNCHANGED nextId
    /\ UNCHANGED notApi

\* lines 217-227, the except branch: status -> error, then the job in memory;
\* an exception of this update_one leaves the task
BgHandle(d, dbOk) ==
    /\ d \in DOMAIN tasks /\ tasks[d].pc = "handling"
    /\ IF dbOk
       THEN /\ papers' = [papers EXCEPT ![d].status = "error", ![d].error = "db error"]
            /\ paper_jobs' = [paper_jobs EXCEPT ![d].status = "error",
                                                ![d].message = "db error"]
            /\ tasks' = [tasks EXCEPT ![d].pc = "done"]
       ELSE /\ tasks' = [tasks EXCEPT ![d].pc = "raised"]
            /\ UNCHANGED <<papers, paper_jobs>>
    /\ resp' = TaskStep
    /\ UNCHANGED nextId
    /\ UNCHANGED notApi

\* get_paper_status without the branch for a stored status 'error'
PaperStatusResponse_noErrorBranch(jobs, docs, id) ==
    IF id \in DOMAIN jobs
    THEN Resp("get_paper_status", "http", NoReq, id, 200, jobs[id].status, NoId,
              jobs[id].message, jobs[id].paper, NoneStr, FALSE)
    ELSE IF id \notin DOMAIN docs
    THEN Resp("get_paper_status", "http", NoReq, id, 404, NoneStr, NoId, NoneStr,
              NoneStr, "Paper not found", FALSE)
    ELSE IF docs[id].status = "completed"
    THEN Resp("get_paper_status", "http", NoReq, id, 200, "success", NoId, NoneStr,
              docs[id].paper_content, NoneStr, FALSE)
    ELSE Resp("get_paper_status", "http", NoReq, id, 200, "processing", id, NoneStr,
              NoneStr, NoneStr, FALSE)

\* the answer of get_paper_status (main.py:293-325) for the jobs and documents given
PaperStatusResponse(jobs, docs, id) ==
    IF id \in DOMAIN jobs
    THEN Resp("get_paper_status", "http", NoReq, id, 200, jobs[id].status, NoId,
              jobs[id].message, jobs[id].paper, NoneStr, FALSE)
    ELSE IF id \notin DOMAIN docs
    THEN Resp("get_paper_status", "http", NoReq, id, 404, NoneStr, NoId, NoneStr,
              NoneStr, "Paper not found", FALSE)
    ELSE IF docs[id].status = "completed"
    THEN Resp("get_paper_status", "http", NoReq, id, 200, "success", NoId, NoneStr,
              docs[id].paper_content, NoneStr, FALSE)
    ELSE IF docs[id].status = "error"
    THEN Resp("get_paper_status", "http", NoReq, id, 200, "error", NoId,
              docs[id].error, NoneStr, NoneStr, FALSE)
    ELSE Resp("get_paper_status", "http", NoReq, id, 200, "processing", id, NoneStr,
              NoneStr, NoneStr, FALSE)

get_paper_status(id) ==
    /\ resp' = PaperStatusResponse(paper_jobs, papers, id)
    /\ UNCHANGED <<papers, paper_jobs, tasks, nextId>>
    /\ UNCHANGED notApi

\* the process starts again: module state is built anew (main.py:92), the
\* tasks of the old process are gone, the database keeps its documents
Restart ==
    /\ paper_jobs' = EmptyMap
    /\ tasks' = EmptyMap
    /\ resp' = Resp("restart", "process", NoReq, NoId, 0, NoneStr, NoId, NoneStr,
                    NoneStr, NoneStr, FALSE)
    /\ UNCHANGED <<papers, nextId>>
    /\ UNCHANGED notApi

DocIds == 1..(MaxDocs + 1)

NextApi ==
    \/ \E req \in PaperRequests : HttpPostGeneratePaper(req)
    \/ \E req \in PaperRequests : generate_paper(req)
    \/ \E req \in RouterRequests : generate_research_paper_endpoint(req)
    \/ \E d \in DocIds, dbOk \in BOOLEAN : BgStart(d, dbOk)
    \/ \E d \in DocIds, genOk \in BOOLEAN : BgGenerate(d, genOk)
    \/ \E d \in DocIds, dbOk \in BOOLEAN : BgStore(d, dbOk)
    \/ \E d \in DocIds, dbOk \in BOOLEAN : BgHandle(d, dbOk)
    \/ \E id \in DocIds : get_paper_status(id)
    \/ Restart

-----------------------------------------------------------------------------
(* ResearchPaperGenerator.generate_research_paper                           *)
(* (api/research_generator.py:32-262), one call followed step by step.      *)

\* the longest list of sections a request gives
MaxSections == 3

\* the longest model response, in lines, on the path without a repository
MaxLines == 2

SectionNames ==
    {"abstract", "Abstract", "references", "code_analysis", "code analysis",
     "Implementation", "appendix"}

\* lines 51-60
DefaultSections ==
    <<"abstract", "introduction", "literature_review", "methodology",
      "results", "discussion", "conclusion", "references">>

\* lines 215-216
section_order ==
    <<"abstract", "introduction", "literature_review", "methodology",
      "results", "discussion", "conclusion", "references">>

\* section.lower()
LowerSection(s) ==
    IF s = "Abstract" THEN "abstract"
    ELSE IF s = "Implementation" THEN "implementation"
    ELSE s

\* section.replace('_', ' ')
Spaced(s) ==
    IF s = "code_analysis" THEN "code analysis"
    ELSE IF s = "literature_review" THEN "literature review"
    ELSE s

\* ' '.join(word.capitalize() for word in section.split('_'))
FormatName(s) ==
    CASE s = "abstract" -> "Abstract"
      [] s = "introduction" -> "Introduction"
      [] s = "literature_review" -> "Literature Review"
      [] s = "methodology" -> "Methodology"
      [] s = "results" -> "Results"
      [] s = "discussion" -> "Discussion"
      [] s = "conclusion" -> "Conclusion"
      [] s = "references" -> "References"

\* list.remove(x): the first occurrence goes
RECURSIVE RemoveFirst(_, _)
RemoveFirst(seq, x) ==
    IF seq = <<>> THEN <<>>
    ELSE IF Head(seq) = x THEN Tail(seq)
    ELSE <<Head(seq)>> \o RemoveFirst(Tail(seq), x)

SeqContains(seq, x) == \E i \in 1..Len(seq) : seq[i] = x

\* lines 50-67: default sections, lower case, "code_analysis" removed once
NormalizeSections(sections) ==
    LET given == IF sections = <<>> THEN DefaultSections ELSE sections
        lowered == [i \in 1..Len(given) |-> LowerSection(given[i])]
    IN  IF SeqContains(lowered, "code_analysis")
        THEN RemoveFirst(lowered, "code_analysis")
        ELSE lowered

\* the section loop skips "code_analysis" only (line 104 without its other names)
SkippedSection_onlyCodeAnalysis(s) == s \in {"code_analysis"}

\* line 104
SkippedSection(s) == s \in {"code_analysis", "code analysis", "implementation"}

\* a text: where it comes from, the response lines it was built of, and the
\* processing passes it went through since
Text(kind, of, lines) == [kind |-> kind, of |-> of, lines |-> lines, passes |-> <<>>]

\* what _generate_with_gemini returns (gemini_generator.py:355-388): response.text
ModelText(section) == Text("model", section, <<>>)

Ev(name, arg, ok) == [name |-> name, arg |-> arg, ok |-> ok]

\* a line of the model's response: blank or not, the section names that occur
\* in its lower-case form, and its number
Line(blank, mentions, id) == [blank |-> blank, mentions |-> mentions, id |-> id]

ResponseLines ==
    {Line(TRUE, {}, 0), Line(FALSE, {}, 1), Line(FALSE, {"abstract"}, 2),
     Line(FALSE, {"references", "abstract"}, 3), Line(FALSE, {"code analysis"}, 4)}

RECURSIVE SeqsUpTo(_, _)
SeqsUpTo(S, n) ==
    IF n = 0 THEN {<<>>}
    ELSE LET shorter == SeqsUpTo(S, n - 1)
         IN  shorter \cup {Append(q, x) : q \in {r \in shorter : Len(r) = n - 1}, x \in S}

\* lines 191-195: the first section of the list the line mentions
RECURSIVE FoundSection(_, _, _)
FoundSection(line, sections, i) ==
    IF i > Len(sections) THEN NoneStr
    ELSE IF sections[i] \in line.mentions \/ Spaced(sections[i]) \in line.mentions
    THEN sections[i]
    ELSE FoundSection(line, sections, i + 1)

\* lines 183-201: the response split into sections
RECURSIVE ParseLines(_, _, _, _, _)
ParseLines(lines, i, sections, current, result) ==
    IF i > Len(lines) THEN result
    ELSE IF lines[i].blank THEN ParseLines(lines, i + 1, sections, current, result)
    ELSE LET found == FoundSection(lines[i], sections, 1)
         IN  IF found # NoneStr
             THEN ParseLines(lines, i + 1, sections, found,
                             MapPut(result, found, Text("parsed", found, <<>>)))
             ELSE IF current # NoneStr
             THEN ParseLines(lines, i + 1, sections, current,
                             [result EXCEPT ![current].lines = Append(@, lines[i].id)])
             ELSE ParseLines(lines, i + 1, sections, current, result)

\* lines 204-206: every section of the list gets an entry
RECURSIVE FillMissing(_, _, _)
FillMissing(sections, i, result) ==
    IF i > Len(sections) THEN result
    ELSE IF sections[i] \in DOMAIN result
    THEN FillMissing(sections, i + 1, result)
    ELSE FillMissing(sections, i + 1,
                     MapPut(result, sections[i], Text("content_placeholder", sections[i], <<>>)))

\* lines 249-252: the sections of result in the order of section_order
RECURSIVE FullPaperParts(_, _)
FullPaperParts(i, result) ==
    IF i > Len(section_order) THEN <<>>
    ELSE IF section_order[i] \in DOMAIN result
    THEN <<[section |-> FormatName(section_order[i]), text |-> result[section_order[i]]]>>
             \o FullPaperParts(i + 1, result)
    ELSE FullPaperParts(i + 1, result)

\* lines 211-254: formatted_result
FormattedResult(result) ==
    [name \in {FormatName(section_order[i]) : i \in 1..Len(section_order)} \cup {"Full Paper"} |->
        IF name = "Full Paper"
        THEN [kind |-> "full", parts |-> FullPaperParts(1, result)]
        ELSE LET s == CHOOSE x \in {section_order[i] : i \in 1..Len(section_order)} :
                          FormatName(x) = name
             IN  IF s \in DOMAIN result THEN result[s]
                 ELSE Text("not_generated", s, <<>>)]

\* lines 46-69
GenStart ==
    /\ gpc = "start"
    /\ gsections' = NormalizeSections(greq.sections)
    /\ gresult' = EmptyMap
    /\ gpc' = IF greq.repo THEN "clone" ELSE "topic"
    /\ UNCHANGED <<greq, gidx, gpending, gtmp, gtrace, gout>>
    /\ UNCHANGED notGen

\* safe_rmtree that does not call rmtree at all
safe_rmtree_noop(rmOk) == "exists"

\* GitHubProcessor.safe_rmtree and what it leaves of the directory: errors of
\* rmtree are swallowed (github_processor.py:12-26)
safe_rmtree(rmOk) == IF rmOk THEN "removed" ELSE "leftover"

\* line 76, GitHubProcessor.clone_repository (github_processor.py:28-64)
Clone(ok, rmOk) ==
    /\ gpc = "clone"
    /\ gtrace' = Append(gtrace, Ev("clone_repository", "", ok))
    /\ IF ok
       THEN gtmp' = "exists" /\ gpc' = "read"
       ELSE gtmp' = safe_rmtree(rmOk) /\ gpc' = "raised"
    /\ UNCHANGED <<greq, gsections, gidx, gresult, gpending, gout>>
    /\ UNCHANGED notGen

\* line 80
ReadFiles(ok) ==
    /\ gpc = "read"
    /\ gtrace' = Append(gtrace, Ev("read_repository_files", "", ok))
    /\ IF ok
       THEN gpc' = "metadata" /\ UNCHANGED gpending
       ELSE gpc' = "finally" /\ gpending' = "raised"
    /\ UNCHANGED <<greq, gsections, gidx, gresult, gtmp, gout>>
    /\ UNCHANGED notGen

\* lines 83-86: the metadata request; divide_code_into_chunks makes no call
Metadata(ok) ==
    /\ gpc = "metadata"
    /\ gtrace' = Append(gtrace, Ev("get_repository_metadata", "", ok))
    /\ IF ok
       THEN gpc' = "loop" /\ gidx' = 1 /\ UNCHANGED gpending
       ELSE gpc' = "finally" /\ gpending' = "raised" /\ UNCHANGED gidx
    /\ UNCHANGED <<greq, gsections, gresult, gtmp, gout>>
    /\ UNCHANGED notGen

\* lines 102-149: one turn of the section loop
SectionLoop ==
    /\ gpc = "loop"
    /\ IF gidx > Len(gsections)
       THEN /\ gpc' = "finally" /\ gpending' = "assemble"
            /\ UNCHANGED <<gidx, gresult, gtrace>>
       ELSE IF SkippedSection(gsections[gidx])
       THEN /\ gidx' = gidx + 1
            /\ UNCHANGED <<gpc, gpending, gresult, gtrace>>
       ELSE \E ok \in BOOLEAN :
               /\ gtrace' = Append(gtrace, Ev("_generate_with_gemini", gsections[gidx], ok))
               /\ IF ok
                  THEN /\ gresult' = MapPut(gresult, gsections[gidx], ModelText(gsections[gidx]))
                       /\ gidx' = gidx + 1
                       /\ UNCHANGED <<gpc, gpending>>
                  ELSE /\ gpc' = "finally" /\ gpending' = "raised"
                       /\ UNCHANGED <<gidx, gresult>>
    /\ UNCHANGED <<greq, gsections, gtmp, gout>>
    /\ UNCHANGED notGen

\* lines 151-158: the finally block
Finally(rmOk) ==
    /\ gpc = "finally"
    /\ gtmp' = IF gtmp = "exists" THEN safe_rmtree(rmOk) ELSE gtmp
    /\ gpc' = gpending
    /\ UNCHANGED <<greq, gsections, gidx, gresult, gpending, gtrace, gout>>
    /\ UNCHANGED notGen

\* lines 159-209: one invocation for the whole paper, parsed into sections
TopicOnly ==
    /\ gpc = "topic"
    /\ \E ok \in BOOLEAN :
          /\ gtrace' = Append(gtrace, Ev("_generate_with_gemini", "paper", ok))
          /\ IF ok
             THEN \E response \in SeqsUpTo(ResponseLines, MaxLines) :
                     /\ gresult' = FillMissing(gsections, 1,
                                       ParseLines(response, 1, gsections, NoneStr, EmptyMap))
                     /\ gpc' = "assemble"
             ELSE gpc' = "raised" /\ UNCHANGED gresult
    /\ UNCHANGED <<greq, gsections, gidx, gpending, gtmp, gout>>
    /\ UNCHANGED notGen

\* lines 211-256
Assemble ==
    /\ gpc = "assemble"
    /\ gout' = FormattedResult(gresult)
    /\ gtrace' = Append(gtrace, Ev("assemble", "", TRUE))
    /\ gpc' = "returned"
    /\ UNCHANGED <<greq, gsections, gidx, gresult, gpending, gtmp>>
    /\ UNCHANGED notGen

NextGen ==
    \/ GenStart
    \/ \E ok \in BOOLEAN, rmOk \in BOOLEAN : Clone(ok, rmOk)
    \/ \E ok \in BOOLEAN : ReadFiles(ok)
    \/ \E ok \in BOOLEAN : Metadata(ok)
    \/ SectionLoop
    \/ \E rmOk \in BOOLEAN : Finally(rmOk)
    \/ TopicOnly
    \/ Assemble

-----------------------------------------------------------------------------
(* Chats and sessions (api/chats.py, api/auth.py).  A handler is one        *)
(* action; the database call that fails, if one does, is an input, and the  *)
(* writes made before it stay.                                              *)

MaxChats == 2
MaxSessions == 2
MaxActivities == 1
MaxDbFailures == 1

UserIds == {"u1", "u2"}

ChatIds == {"a", "b"}

\* the value under "messages": whether the key is there, whether
\* len(str(messages)) > 10000, and the number of messages
Msgs(present, large, n) == [present |-> present, large |-> large, n |-> n]

SmallMsgs == Msgs(TRUE, FALSE, 1)
LargeMsgs == Msgs(TRUE, TRUE, 11)

Chat(id, topic, msgs, userId) ==
    [id |-> id, topic |-> topic, messages |-> msgs, userId |-> userId,
     syncedAt |-> FALSE, hasStoredMessages |-> FALSE]

\* the chats a client sends
ClientChats ==
    {Chat("a", "t0", LargeMsgs, "u2"), Chat("b", "t1", SmallMsgs, NoneStr)}

ChatLists == SeqsUpTo(ClientChats, MaxChats)

\* data.get("title"): no key, an empty title, a title
Titles == {NoneStr, "", "t2"}

\* the bearer tokens of the requests: that of u1, and one that does not
\* decode.  u2 is the user whose data the requests of u1 must leave alone
Tokens == {"u1", "bad"}

\* what a database call can do: every call works, or the n-th one raises
FailAt(n) == 0..n

\* a handler has run with this choice: at most MaxDbFailures calls raise
DbCalls(failed) ==
    /\ failed # 0 => dbfails < MaxDbFailures
    /\ dbfails' = IF failed # 0 THEN dbfails + 1 ELSE dbfails

\* range(0, len(messages), 10)
ChunkIndexes(n) == {i \in 0..n : i * 10 < n}

Chunk(chatId, userId, i) == [chatId |-> chatId, userId |-> userId, chunkIndex |-> i]

\* the answer of a handler, with its arguments
CResp(op, user, chat_id, list, title, code, detail, chats, failed) ==
    [op |-> op, user |-> user, chat_id |-> chat_id, list |-> list, title |-> title,
     code |-> code, detail |-> detail, chats |-> chats, failed |-> failed]

\* an HTTPException
HTTPException(status_code, detail) == [status_code |-> status_code, detail |-> detail]

\* str(e) of an HTTPException: "400: Title is required" with the Starlette
\* versions that define __str__, the empty string with the others
StrOfHTTPException(e) ==
    {"", CASE e = HTTPException(400, "Title is required") -> "400: Title is required"
           [] e = HTTPException(404, "User not found") -> "404: User not found"
           [] e = HTTPException(404, "Chat not found") -> "404: Chat not found"
           [] e = HTTPException(400, "User ID is required") -> "400: User ID is required"}

\* "Error in logout: " + str(e)
LogoutDetail(s) ==
    CASE s = "" -> "Error in logout: "
      [] s = "400: User ID is required" -> "Error in logout: 400: User ID is required"

\* chats.get_current_user (chats.py:12-24)
get_current_user(token) == IF token \in UserIds THEN 200 ELSE 401

Unauthorized(op, chat_id) ==
    CResp(op, NoneStr, chat_id, <<>>, NoneStr, 401, "Invalid authentication credentials",
          <<>>, 0)

\* lines 66-67: chat["userId"] = user_id
Tagged(L, u) == [i \in 1..Len(L) |-> [L[i] EXCEPT !.userId = u]]

\* lines 88-112: what insert_many is given
Stripped(chat) ==
    IF chat.messages.present /\ chat.messages.large
    THEN [chat EXCEPT !.syncedAt = TRUE, !.messages = Msgs(TRUE, FALSE, 0),
                      !.hasStoredMessages = chat.messages.n > 0]
    ELSE [chat EXCEPT !.syncedAt = TRUE]

\* lines 91-108: the chunks of the large chats replace the chunks of their ids
RECURSIVE StoreMessages(_, _, _)
StoreMessages(chats, i, cm) ==
    IF i > Len(chats) THEN cm
    ELSE IF chats[i].messages.present /\ chats[i].messages.large
    THEN StoreMessages(chats, i + 1,
             {c \in cm : c.chatId # chats[i].id}
                 \cup {Chunk(chats[i].id, chats[i].userId, k) :
                          k \in ChunkIndexes(chats[i].messages.n)})
    ELSE StoreMessages(chats, i + 1, cm)

HasLarge(L) == \E i \in 1..Len(L) : L[i].messages.present /\ L[i].messages.large

\* update_one({"googleId": u}, {"$set": {"chats": chats}}): no upsert
SetChats(us, u, chats) ==
    IF u \in DOMAIN us THEN [us EXCEPT ![u].chats = chats] ELSE us

\* get_user_chats (chats.py:26-47)
get_user_chats(token) ==
    /\ IF get_current_user(token) = 401
       THEN cresp' = Unauthorized("get_user_chats", NoneStr) /\ UNCHANGED dbfails
       ELSE \E failed \in FailAt(1) :
               /\ DbCalls(failed)
               /\ cresp' = IF failed = 1
                           THEN CResp("get_user_chats", token, NoneStr, <<>>, NoneStr, 500,
                                      "Error fetching chats: db", <<>>, failed)
                           ELSE CResp("get_user_chats", token, NoneStr, <<>>, NoneStr, 200,
                                      NoneStr,
                                      IF token \in DOMAIN users THEN users[token].chats
                                      ELSE <<>>,
                                      failed)
    /\ UNCHANGED <<users, chats_coll, chat_messages, user_activities, sessions, csync>>
    /\ UNCHANGED notAcct

\* sync_chats (chats.py:49-120).  The calls that can fail: 1 the update of
\* the user document, 2 the delete_many on chats, 3 the first delete_many on
\* chat_messages, 4 insert_many
sync_chats(token, L) ==
    /\ IF get_current_user(token) = 401
       THEN /\ cresp' = Unauthorized("sync_chats", NoneStr)
            /\ UNCHANGED <<users, chats_coll, chat_messages, csync, dbfails>>
       ELSE \E failed \in FailAt(4) :
               LET u == token
                   chats == Tagged(L, u)
                   users1 == SetChats(users, u, chats)
                   coll1 == SelectSeq(chats_coll, LAMBDA c : c.userId # u)
                   cm1 == StoreMessages(chats, 1, chat_messages)
                   coll2 == coll1 \o [i \in 1..Len(chats) |-> Stripped(chats[i])]
               IN  /\ DbCalls(failed)
                   /\ failed = 3 => HasLarge(L)
                   /\ failed = 4 => L # <<>>
                   /\ users' = IF failed = 1 THEN users ELSE users1
                   /\ chats_coll' = IF failed \in {1, 2} THEN chats_coll
                                    ELSE IF failed \in {3, 4} \/ L = <<>> THEN coll1
                                    ELSE coll2
                   /\ chat_messages' = IF failed \in {1, 2, 3} \/ L = <<>> THEN chat_messages
                                       ELSE cm1
                   /\ csync' = [csync EXCEPT ![u] = IF failed = 0 THEN [list |-> L] ELSE None]
                   /\ cresp' = IF failed = 0
                               THEN CResp("sync_chats", u, NoneStr, L, NoneStr, 200,
                                          "Chats synced successfully", <<>>, failed)
                               ELSE CResp("sync_chats", u, NoneStr, L, NoneStr, 500,
                                          "Error syncing chats: db", <<>>, failed)
    /\ UNCHANGED <<user_activities, sessions>>
    /\ UNCHANGED notAcct

\* the list keeps its first chat with the id only when a second one follows
RECURSIVE RemoveChat_firstOnly(_, _)
RemoveChat_firstOnly(chats, chat_id) ==
    IF chats = <<>> THEN <<>>
    ELSE IF Head(chats).id = chat_id THEN Tail(chats)
    ELSE <<Head(chats)>> \o RemoveChat_firstOnly(Tail(chats), chat_id)

\* line 144: [chat for chat in chats if chat.get("id") != chat_id]
RemoveChat(chats, chat_id) == SelectSeq(chats, LAMBDA c : c.id # chat_id)

Activity(userId, type, chatId, newTitle) ==
    [userId |-> userId, type |-> type, chatId |-> chatId, newTitle |-> newTitle]

\* delete_chat (chats.py:122-171).  The calls that can fail: 1 find_one,
\* 2 update_one, 3 delete_many on chats, 4 delete_many on chat_messages,
\* 5 insert_one on user_activities
delete_chat(token, chat_id) ==
    /\ IF get_current_user(token) = 401
       THEN /\ cresp' = Unauthorized("delete_chat", chat_id)
            /\ UNCHANGED <<users, chats_coll, chat_messages, user_activities, csync,
                           dbfails>>
       ELSE \E failed \in FailAt(5) :
               LET u == token
                   found == failed # 1 /\ u \in DOMAIN users
                   done(n) == found /\ (failed = 0 \/ failed > n)
               IN  /\ DbCalls(failed)
                   /\ (failed > 1) => u \in DOMAIN users
                   /\ done(5) => Len(user_activities) < MaxActivities
                   /\ users' = IF done(2)
                               THEN SetChats(users, u, RemoveChat(users[u].chats, chat_id))
                               ELSE users
                   /\ chats_coll' = IF done(3)
                                    THEN SelectSeq(chats_coll,
                                             LAMBDA c : ~(c.id = chat_id /\ c.userId = u))
                                    ELSE chats_coll
                   /\ chat_messages' = IF done(4)
                                       THEN {c \in chat_messages :
                                                ~(c.chatId = chat_id /\ c.userId = u)}
                                       ELSE chat_messages
                   /\ user_activities' = IF done(5)
                                         THEN Append(user_activities,
                                                  Activity(u, "delete_chat", chat_id, NoneStr))
                                         ELSE user_activities
                   /\ csync' = [csync EXCEPT ![u] = None]
                   /\ cresp' = IF failed # 0
                               THEN CResp("delete_chat", u, chat_id, <<>>, NoneStr, 500,
                                          "Error deleting chat: db", <<>>, failed)
                               ELSE IF ~found
                               THEN CResp("delete_chat", u, chat_id, <<>>, NoneStr, 404,
                                          "User not found", <<>>, failed)
                               ELSE CResp("delete_chat", u, chat_id, <<>>, NoneStr, 200,
                                          "Chat deleted successfully", <<>>, failed)
    /\ UNCHANGED sessions
    /\ UNCHANGED notAcct

\* lines 202-206: the first chat with the id gets the title
RECURSIVE SetTopic(_, _, _)
SetTopic(chats, chat_id, title) ==
    IF chats = <<>> THEN <<>>
    ELSE IF Head(chats).id = chat_id
    THEN <<[Head(chats) EXCEPT !.topic = title]>> \o Tail(chats)
    ELSE <<Head(chats)>> \o SetTopic(Tail(chats), chat_id, title)

HasChat(chats, chat_id) == \E i \in 1..Len(chats) : chats[i].id = chat_id

\* lines 218-221: update_one on the first document of the user with the id
RECURSIVE SetTopicOfUser(_, _, _, _)
SetTopicOfUser(coll, chat_id, u, title) ==
    IF coll = <<>> THEN <<>>
    ELSE IF Head(coll).id = chat_id /\ Head(coll).userId = u
    THEN <<[Head(coll) EXCEPT !.topic = title]>> \o Tail(coll)
    ELSE <<Head(coll)>> \o SetTopicOfUser(Tail(coll), chat_id, u, title)

\* the exception the handler raises before it writes, or None
TitleError(us, u, chat_id, title) ==
    IF title \in {NoneStr, ""} THEN HTTPException(400, "Title is required")
    ELSE IF u \notin DOMAIN us THEN HTTPException(404, "User not found")
    ELSE IF ~HasChat(us[u].chats, chat_id) THEN HTTPException(404, "Chat not found")
    ELSE None

\* update_chat_title (chats.py:173-234).  The calls that can fail: 1
\* find_one, 2 update_one on users, 3 update_one on chats, 4 insert_one on
\* user_activities.  Line 233 catches every exception, those of lines 190,
\* 198 and 209 too, and answers 500 with str(e).
update_chat_title(token, chat_id, title) ==
    /\ IF get_current_user(token) = 401
       THEN /\ cresp' = Unauthorized("update_chat_title", chat_id)
            /\ UNCHANGED <<users, chats_coll, user_activities, csync, dbfails>>
       ELSE \E failed \in FailAt(4) :
               LET u == token
                   e == IF title \in {NoneStr, ""} \/ failed # 1
                        THEN TitleError(users, u, chat_id, title)
                        ELSE None
                   done(n) == e = None /\ (failed = 0 \/ failed > n)
               IN  /\ DbCalls(failed)
                   /\ title \in {NoneStr, ""} => failed = 0
                   /\ (failed > 1) => TitleError(users, u, chat_id, title) = None
                   /\ done(4) => Len(user_activities) < MaxActivities
                   /\ users' = IF done(2)
                               THEN SetChats(users, u, SetTopic(users[u].chats, chat_id, title))
                               ELSE users
                   /\ chats_coll' = IF done(3)
                                    THEN SetTopicOfUser(chats_coll, chat_id, u, title)
                                    ELSE chats_coll
                   /\ user_activities' = IF done(4)
                                         THEN Append(user_activities,
                                                  Activity(u, "update_chat_title", chat_id, title))
                                         ELSE user_activities
                   /\ csync' = [csync EXCEPT ![u] = None]
                   /\ IF e # None
                      THEN \E s \in StrOfHTTPException(e) :
                              cresp' = CResp("update_chat_title", u, chat_id, <<>>, title,
                                             500, s, <<>>, failed)
                      ELSE cresp' = IF failed # 0
                                    THEN CResp("update_chat_title", u, chat_id, <<>>, title,
                                               500, "db", <<>>, failed)
                                    ELSE CResp("update_chat_title", u, chat_id, <<>>, title,
                                               200, "Chat title updated successfully", <<>>,
                                               failed)
    /\ UNCHANGED <<chat_messages, sessions>>
    /\ UNCHANGED notAcct

Session(userId, active, endTime) == [userId |-> userId, active |-> active, endTime |-> endTime]

\* no "endTime" in the document
NoTime == -1

\* google_signin (auth.py:48-113).  The calls that can fail: 1 find_one,
\* 2 update_one or insert_one on users, 3 insert_one on sessions
google_signin(googleId) ==
    /\ Len(sessions) < MaxSessions
    /\ \E failed \in FailAt(3) :
          /\ DbCalls(failed)
          /\ users' = IF failed \in {1, 2} \/ googleId \in DOMAIN users THEN users
                      ELSE MapPut(users, googleId, [chats |-> <<>>])
          /\ sessions' = IF failed = 0 THEN Append(sessions, Session(googleId, TRUE, NoTime))
                         ELSE sessions
          /\ cresp' = IF failed # 0
                      THEN CResp("google_signin", googleId, NoneStr, <<>>, NoneStr, 500,
                                 "Error in Google signin: db", <<>>, failed)
                      ELSE CResp("google_signin", googleId, NoneStr, <<>>, NoneStr, 200,
                                 IF googleId \in DOMAIN users
                                 THEN "User logged in successfully"
                                 ELSE "User created successfully",
                                 <<>>, failed)
    /\ UNCHANGED <<chats_coll, chat_messages, user_activities, csync>>
    /\ UNCHANGED notAcct

\* data.get("userId"): no key, an empty id, the id of a user
LogoutIds == {NoneStr, ""} \cup UserIds

\* update_many ends the first active session of the user only
RECURSIVE EndSessions_firstOnly(_, _, _)
EndSessions_firstOnly(ss, u, t) ==
    IF ss = <<>> THEN <<>>
    ELSE IF Head(ss).userId = u /\ Head(ss).active
    THEN <<Session(u, FALSE, t)>> \o Tail(ss)
    ELSE <<Head(ss)>> \o EndSessions_firstOnly(Tail(ss), u, t)

\* lines 127-130: update_many({"userId": u, "active": True}, {"$set": ...})
EndSessions(ss, u, t) ==
    [i \in 1..Len(ss) |-> IF ss[i].userId = u /\ ss[i].active
                          THEN [ss[i] EXCEPT !.active = FALSE, !.endTime = t]
                          ELSE ss[i]]

\* logout (auth.py:115-135).  The call that can fail: 1 update_many.  Line
\* 134 catches the exception of line 124 too
logout(userId) ==
    /\ IF userId \in {NoneStr, ""}
       THEN /\ \E s \in StrOfHTTPException(HTTPException(400, "User ID is required")) :
                  cresp' = CResp("logout", userId, NoneStr, <<>>, NoneStr, 500,
                                 LogoutDetail(s), <<>>, 0)
            /\ UNCHANGED <<sessions, dbfails>>
       ELSE \E failed \in FailAt(1) :
               /\ DbCalls(failed)
               /\ sessions' = IF failed = 1 THEN sessions ELSE EndSessions(sessions, userId, now)
               /\ cresp' = IF failed = 1
                           THEN CResp("logout", userId, NoneStr, <<>>, NoneStr, 500,
                                      "Error in logout: db", <<>>, failed)
                           ELSE CResp("logout", userId, NoneStr, <<>>, NoneStr, 200,
                                      "Logged out successfully", <<>>, failed)
    /\ UNCHANGED <<users, chats_coll, chat_messages, user_activities, csync>>
    /\ UNCHANGED notAcct

\* the chats u2 synced before the requests of u1
OtherChats == <<Chat("a", "t0", LargeMsgs, NoneStr), Chat("b", "t1", SmallMsgs, NoneStr)>>

NextChats ==
    \/ \E token \in Tokens : get_user_chats(token)
    \/ \E token \in Tokens, L \in ChatLists : sync_chats(token, L)
    \/ \E token \in Tokens, chat_id \in ChatIds : delete_chat(token, chat_id)
    \/ \E token \in Tokens, chat_id \in ChatIds, title \in Titles :
          update_chat_title(token, chat_id, title)
    \/ \E userId \in LogoutIds : logout(userId)

NextAuth ==
    \/ \E googleId \in UserIds : google_signin(googleId)
    \/ \E userId \in LogoutIds : logout(userId)
    \/ \E t \in Times : Tick(t)

\* the process has started: an empty cache, no jobs, no documents, and no
\* call of generate_research_paper under way
Init ==
    /\ cache = EmptyMap
    /\ now = 0
    /\ hist = [k \in Keys |-> None]
    /\ cop = Cop("init", None, None, None, "returned", FALSE)
    /\ papers = EmptyMap
    /\ paper_jobs = EmptyMap
    /\ tasks = EmptyMap
    /\ nextId = 0
    /\ resp = Resp("init", "process", NoReq, NoId, 0, NoneStr, NoId, NoneStr,
                   NoneStr, NoneStr, FALSE)
    /\ gpc = "idle"
    /\ greq = [sections |-> <<>>, repo |-> FALSE]
    /\ gsections = <<>>
    /\ gidx = 0
    /\ gresult = EmptyMap
    /\ gpending = "none"
    /\ gtmp = "none"
    /\ gtrace = <<>>
    /\ gout = EmptyMap
    /\ users = EmptyMap
    /\ chats_coll = <<>>
    /\ chat_messages = {}
    /\ user_activities = <<>>
    /\ sessions = <<>>
    /\ cresp = CResp("init", NoneStr, NoneStr, <<>>, NoneStr, 0, NoneStr, <<>>, 0)
    /\ csync = [u \in UserIds |-> None]
    /\ dbfails = 0

\* the same, after u2 signed in and synced the chats a and b, with or
\* without a document of u1
InitChats ==
    /\ cache = EmptyMap
    /\ now = 0
    /\ hist = [k \in Keys |-> None]
    /\ cop = Cop("init", None, None, None, "returned", FALSE)
    /\ papers = EmptyMap
    /\ paper_jobs = EmptyMap
    /\ tasks = EmptyMap
    /\ nextId = 0
    /\ resp = Resp("init", "process", NoReq, NoId, 0, NoneStr, NoId, NoneStr,
                   NoneStr, NoneStr, FALSE)
    /\ gpc = "idle"
    /\ greq = [sections |-> <<>>, repo |-> FALSE]
    /\ gsections = <<>>
    /\ gidx = 0
    /\ gresult = EmptyMap
    /\ gpending = "none"
    /\ gtmp = "none"
    /\ gtrace = <<>>
    /\ gout = EmptyMap
    /\ users \in {[u \in S |-> [chats |-> IF u = "u2" THEN Tagged(OtherChats, u) ELSE <<>>]] :
                      S \in {{"u2"}, {"u1", "u2"}}}
    /\ chats_coll = [i \in 1..Len(OtherChats) |-> Stripped(Tagged(OtherChats, "u2")[i])]
    /\ chat_messages = StoreMessages(Tagged(OtherChats, "u2"), 1, {})
    /\ user_activities = <<>>
    /\ sessions = <<>>
    /\ cresp = CResp("init", NoneStr, NoneStr, <<>>, NoneStr, 0, NoneStr, <<>>, 0)
    /\ csync = [u \in UserIds |-> None]
    /\ dbfails = 0

\* the same, at a call of generate_research_paper with its arguments
InitGen ==
    /\ cache = EmptyMap
    /\ now = 0
    /\ hist = [k \in Keys |-> None]
    /\ cop = Cop("init", None, None, None, "returned", FALSE)
    /\ papers = EmptyMap
    /\ paper_jobs = EmptyMap
    /\ tasks = EmptyMap
    /\ nextId = 0
    /\ resp = Resp("init", "process", NoReq, NoId, 0, NoneStr, NoId, NoneStr,
                   NoneStr, NoneStr, FALSE)
    /\ gpc = "start"
    /\ greq \in [sections : SeqsUpTo(SectionNames, MaxSections), repo : BOOLEAN]
    /\ gsections = <<>>
    /\ gidx = 0
    /\ gresult = EmptyMap
    /\ gpending = "none"
    /\ gtmp = "none"
    /\ gtrace = <<>>
    /\ gout = EmptyMap
    /\ users = EmptyMap
    /\ chats_coll = <<>>
    /\ chat_messages = {}
    /\ user_activities = <<>>
    /\ sessions = <<>>
    /\ cresp = CResp("init", NoneStr, NoneStr, <<>>, NoneStr, 0, NoneStr, <<>>, 0)
    /\ csync = [u \in UserIds |-> None]
    /\ dbfails = 0

\* the paper job handlers and the router endpoint
Spec == Init /\ [][NextApi]_vars

\* the cache under its own operations
SpecCache == Init /\ [][NextCache]_vars

\* the cache as fetch_repo_data uses it
SpecFetch == Init /\ [][NextFetch]_vars

\* one call of generate_research_paper
SpecGen == InitGen /\ [][NextGen]_vars

\* the chats handlers and logout
SpecChats == InitChats /\ [][NextChats]_vars

\* sign-in and logout
SpecAuth == Init /\ [][NextAuth]_vars

-----------------------------------------------------------------------------
(* Properties of the paper job handlers.                                    *)

\* a request body PaperRequest accepts, with a topic and, for sourceType
\* 'github', a URL of a GitHub repository
ValidPost(req) ==
    /\ req.hasTopic /\ req.topic # ""
    /\ (req.sourceType = "github" /\ UrlGiven(req.sourceUrl)) => req.sourceUrl \in ValidUrls

\* C3 as stated: a valid POST to /api/research/generate-paper is answered
\* 'processing' with a fresh document_id at once: the paper document is
\* inserted 'queued', the job is added 'processing', the background task is
\* scheduled, and no generation has run when the answer goes out.
C3_PostAnsweredProcessing ==
    (resp.via = "http" /\ resp.handler # "get_paper_status" /\ ValidPost(resp.req)
        /\ resp.detail # "db error")
    => /\ resp.code = 200
       /\ resp.status = "processing"
       /\ ~resp.generated
       /\ resp.document_id \in DOMAIN papers
       /\ papers[resp.document_id].status = "queued"
       /\ resp.document_id \in DOMAIN paper_jobs
       /\ paper_jobs[resp.document_id].status = "processing"
       /\ resp.document_id \in DOMAIN tasks
       /\ tasks[resp.document_id].pc = "scheduled"

\* C4 as stated: a job whose background task has run to its end (every call
\* it made returned or raised) is terminal: the job in memory is 'success' or
\* 'error' and the stored document is 'completed' or 'error'.
C4_JobsReachTerminalStatus ==
    \A d \in DOMAIN tasks :
        tasks[d].pc \in {"done", "raised"} =>
            /\ paper_jobs[d].status \in {"success", "error"}
            /\ papers[d].status \in {"completed", "error"}

\* C5: get_paper_status(id) answers from paper_jobs when id is there;
\* otherwise 404 'Paper not found' when no document has the id; otherwise
\* 'success' with paper_content for a stored 'completed', 'error' with the
\* stored error text for 'error', 'processing' with the id for anything else.
C5_StatusAnswer ==
    resp.handler = "get_paper_status" =>
        IF resp.id \in DOMAIN paper_jobs
        THEN /\ resp.code = 200
             /\ resp.status = paper_jobs[resp.id].status
             /\ resp.message = paper_jobs[resp.id].message
             /\ resp.paper = paper_jobs[resp.id].paper
        ELSE IF resp.id \notin DOMAIN papers
        THEN resp.code = 404 /\ resp.detail = "Paper not found"
        ELSE IF papers[resp.id].status = "completed"
        THEN /\ resp.code = 200 /\ resp.status = "success"
             /\ resp.paper = papers[resp.id].paper_content
        ELSE IF papers[resp.id].status = "error"
        THEN /\ resp.code = 200 /\ resp.status = "error"
             /\ resp.message = papers[resp.id].error
        ELSE /\ resp.code = 200 /\ resp.status = "processing"
             /\ resp.document_id = resp.id

\* the status of a document stored with an error was asked for after the
\* job left the memory
C5_Witness ==
    /\ resp.handler = "get_paper_status"
    /\ resp.id \notin DOMAIN paper_jobs
    /\ resp.id \in DOMAIN papers
    /\ papers[resp.id].status = "error"
    /\ resp.status = "error"

\* C6 as stated: the router endpoint answers a missing or empty topic with
\* HTTP 400 'Topic is required' and starts no generation.
C6_MissingTopicIs400 ==
    (resp.handler = "router.generate_research_paper"
        /\ ~(resp.req.hasTopic /\ resp.req.topic # ""))
    => /\ resp.code = 400
       /\ resp.detail = "Topic is required"
       /\ ~resp.generated

\* C7: generate_paper with sourceType 'github' and a non-empty sourceUrl that
\* is no GitHub repository URL fails with an HTTP error carrying 'Invalid
\* GitHub repository URL format' and changes nothing: no document, no job,
\* no background task.
C7_InvalidUrlRejected ==
    [][ ( /\ resp'.handler = "generate_paper"
          /\ resp'.req.sourceType = "github"
          /\ UrlGiven(resp'.req.sourceUrl)
          /\ resp'.req.sourceUrl \in InvalidUrls )
        => /\ resp'.code >= 400
           /\ resp'.detail = "Invalid GitHub repository URL format"
           /\ papers' = papers
           /\ paper_jobs' = paper_jobs
           /\ tasks' = tasks
           /\ nextId' = nextId
      ]_vars

\* generate_paper has rejected such a URL while a job was there to disturb
C7_Witness ==
    /\ resp.handler = "generate_paper"
    /\ resp.req.sourceType = "github"
    /\ resp.req.sourceUrl = U_other
    /\ resp.code = 500
    /\ resp.detail = "Invalid GitHub repository URL format"
    /\ \E d \in DOMAIN paper_jobs : tasks[d].pc = "generating"

-----------------------------------------------------------------------------
(* Properties of the generation pipeline.                                   *)

\* the text went through the humanization pass
Humanized(text) == \E i \in 1..Len(text.passes) : text.passes[i] = "humanize"

\* C1 as stated: in every run that returns a document, the text of each
\* generated section went through the humanization pass after the model
\* invocation that produced it and before it was assembled into the result
\* and its 'Full Paper' entry.
C1_SectionsAreHumanized ==
    gpc = "returned" =>
        /\ \A name \in DOMAIN gout :
              (name # "Full Paper" /\ gout[name].kind \in {"model", "parsed"})
                  => Humanized(gout[name])
        /\ \A i \in 1..Len(gout["Full Paper"].parts) :
              gout["Full Paper"].parts[i].text.kind \in {"model", "parsed"}
                  => Humanized(gout["Full Paper"].parts[i].text)

\* the sections the request asks to generate from the repository, in the
\* order of the request (the default list when it gives none), in lower
\* case, without code_analysis, 'code analysis' and implementation
RECURSIVE RequestedSections(_)
RequestedSections(sections) ==
    IF sections = <<>> THEN <<>>
    ELSE IF LowerSection(Head(sections)) \in {"code_analysis", "code analysis", "implementation"}
    THEN RequestedSections(Tail(sections))
    ELSE <<LowerSection(Head(sections))>> \o RequestedSections(Tail(sections))

\* the calls of a complete run with a repository
ExpectedCalls(req) ==
    LET asked == RequestedSections(IF req.sections = <<>> THEN DefaultSections
                                   ELSE req.sections)
    IN  <<Ev("clone_repository", "", TRUE), Ev("read_repository_files", "", TRUE),
          Ev("get_repository_metadata", "", TRUE)>>
        \o [i \in 1..Len(asked) |-> Ev("_generate_with_gemini", asked[i], TRUE)]
        \o <<Ev("assemble", "", TRUE)>>

\* C2: with a repo_url the calls come in this order and no other: clone,
\* read files, metadata, one model invocation per requested section in the
\* order of the request (code_analysis, 'code analysis' and implementation
\* skipped), assembly after the last invocation returned; each call is made
\* only after every call before it succeeded, so no model invocation happens
\* unless the clone and the metadata fetch succeeded.
C2_PipelineOrder ==
    greq.repo =>
        /\ Len(gtrace) <= Len(ExpectedCalls(greq))
        /\ \A i \in 1..Len(gtrace) :
              /\ gtrace[i].name = ExpectedCalls(greq)[i].name
              /\ gtrace[i].arg = ExpectedCalls(greq)[i].arg
              /\ i < Len(gtrace) => gtrace[i].ok
        /\ gpc = "returned" =>
              /\ gtrace = ExpectedCalls(greq)
              /\ \A i \in 1..Len(RequestedSections(greq.sections)) :
                    RequestedSections(greq.sections)[i] \in DOMAIN gresult

\* a run with a repository returned after two invocations and a skipped
\* section between them
C2_Witness ==
    /\ greq.repo
    /\ gpc = "returned"
    /\ greq.sections = <<"references", "Implementation", "Abstract">>
    /\ Len(gtrace) = 6
    /\ gtrace[4].arg = "references"
    /\ gtrace[5].arg = "abstract"

-----------------------------------------------------------------------------
(* Properties of the cache.                                                 *)

\* the most recent set of key k is still in force at time t
InForce(k, t) ==
    /\ hist[k] # None
    /\ ~hist[k].cancelled
    /\ t <= hist[k].at + (IF hist[k].ttl = TtlNone THEN DefaultTtl ELSE hist[k].ttl)

\* C8: get(k) returns the value of the most recent set(k, v, ttl) when the
\* time is not later than that set's time plus ttl (default_ttl when ttl is
\* None) and no invalidate(k) or clear() came since; otherwise it returns
\* None, and after a get on an expired key the key is not in the cache.
C8_GetReturnsLiveValue ==
    cop.op = "get" =>
        /\ cop.value = (IF InForce(cop.key, cop.at) THEN hist[cop.key].value ELSE None)
        /\ ~InForce(cop.key, cop.at) => cop.key \notin DOMAIN cache

\* a get found its key set, not cancelled, and expired
C8_Witness ==
    /\ cop.op = "get"
    /\ hist[cop.key] # None
    /\ ~hist[cop.key].cancelled
    /\ ~InForce(cop.key, cop.at)
    /\ cop.value = None
    /\ \E k \in DOMAIN cache : k # cop.key

\* C9: no eviction.  set(k, v) touches only the entry of k; an entry leaves
\* the cache only by invalidate of its key, by clear, by cleanup when it is
\* expired, or by get on it when it is expired; cleanup removes every
\* expired entry and leaves every unexpired entry as it was.
C9_NoEviction ==
    [][ now' = now =>
        /\ \A k \in DOMAIN cache :
              k \notin DOMAIN cache' =>
                  \/ cop'.op = "invalidate" /\ cop'.key = k
                  \/ cop'.op = "clear"
                  \/ cop'.op = "cleanup" /\ Expired(cache[k], now)
                  \/ cop'.op = "get" /\ cop'.key = k /\ Expired(cache[k], now)
        /\ cop'.op = "set" =>
              /\ DOMAIN cache' = (DOMAIN cache) \cup {cop'.key}
              /\ \A k \in (DOMAIN cache) \ {cop'.key} : cache'[k] = cache[k]
        /\ cop'.op = "cleanup" =>
              \A k \in DOMAIN cache :
                  IF Expired(cache[k], now)
                  THEN k \notin DOMAIN cache'
                  ELSE k \in DOMAIN cache' /\ cache'[k] = cache[k]
      ]_vars

\* a cleanup has just removed an expired entry and kept an unexpired one
C9_Witness ==
    /\ cop.op = "cleanup"
    /\ cop.at = now
    /\ \E k \in Keys : hist[k] # None /\ ~hist[k].cancelled /\ ~InForce(k, now)
                        /\ k \notin DOMAIN cache
    /\ \E k \in DOMAIN cache : ~Expired(cache[k], now)

\* C10 as stated: after fetch_repo_data(url) succeeded, a second
\* fetch_repo_data(url) within 3600 seconds returns the cached result and
\* makes no GitHub API request; a fetch that fails stores nothing.
C10_SecondFetchIsCached ==
    [][ /\ ( /\ cop.op = "fetch" /\ cop.outcome = "returned" /\ cop.requested
             /\ cop'.op = "fetch" /\ cop'.url = cop.url
             /\ cop' # cop
             /\ cop'.at <= cop.at + 3600 )
           => /\ cop'.outcome = "returned"
              /\ ~cop'.requested
              /\ cop'.value = cop.value
        /\ (cop'.op = "fetch" /\ cop'.outcome = "raised" /\ cop' # cop)
           => \A k \in DOMAIN cache' : k \in DOMAIN cache /\ cache'[k] = cache[k]
      ]_vars

-----------------------------------------------------------------------------
(* The temporary directory of the clone.                                    *)

\* a model invocation of the call failed
InvocationFailed ==
    \E i \in 1..Len(gtrace) : gtrace[i].name = "_generate_with_gemini" /\ ~gtrace[i].ok

\* clone_repository ran and so made a temporary directory
CloneRan == \E i \in 1..Len(gtrace) : gtrace[i].name = "clone_repository"

\* C15 as stated: every temporary directory created by clone_repository is
\* removed before generate_research_paper returns or raises, after a failed
\* clone and on every exit path after a successful one; when a model
\* invocation fails the call raises and returns no partial paper.
C15_TempDirRemoved ==
    /\ gpc \in {"returned", "raised"} => gtmp \in {"none", "removed"}
    /\ (gpc \in {"returned", "raised"} /\ InvocationFailed)
           => gpc = "raised" /\ gout = EmptyMap

\* C15, amended: before generate_research_paper returns or raises,
\* safe_rmtree has been called on every temporary directory clone_repository
\* created (after a failed clone and on every exit path after a successful
\* one), so no directory is left without a removal attempt; the directory
\* stays behind only when rmtree itself failed, which safe_rmtree swallows.
\* When a model invocation fails the call raises and returns no paper.
C15_TempDirRemovalAttempted ==
    /\ gpc \in {"returned", "raised"} =>
           /\ gtmp # "exists"
           /\ CloneRan <=> gtmp \in {"removed", "leftover"}
    /\ (gpc \in {"returned", "raised"} /\ InvocationFailed)
           => gpc = "raised" /\ gout = EmptyMap
    /\ gtmp = "exists" => gpc \in {"read", "metadata", "loop", "finally"}

\* the second model invocation failed, the call raised, and the removal of
\* the directory in the finally block failed too
C15_Witness ==
    /\ gpc = "raised"
    /\ Len(gtrace) = 5
    /\ gtrace[4].ok /\ ~gtrace[5].ok
    /\ gtrace[5].name = "_generate_with_gemini"
    /\ gtmp = "leftover"

-----------------------------------------------------------------------------
(* Properties of the chats handlers.                                        *)

\* C11 as stated: after sync_chats succeeded for a user with the list L,
\* get_user_chats of the same user returns exactly the chats of L, in the
\* same order, each tagged with the user's id, until the user's next
\* sync_chats, delete_chat or update_chat_title.
C11_GetReturnsSyncedChats ==
    (cresp.op = "get_user_chats" /\ cresp.code = 200 /\ csync[cresp.user] # None) =>
        /\ Len(cresp.chats) = Len(csync[cresp.user].list)
        /\ \A i \in 1..Len(cresp.chats) :
              /\ cresp.chats[i].userId = cresp.user
              /\ cresp.chats[i].id = csync[cresp.user].list[i].id
              /\ cresp.chats[i].topic = csync[cresp.user].list[i].topic
              /\ cresp.chats[i].messages = csync[cresp.user].list[i].messages

\* the chats of the list whose id is not the given one, in their order
RECURSIVE ChatsWithout(_, _)
ChatsWithout(chats, chat_id) ==
    IF chats = <<>> THEN <<>>
    ELSE IF Head(chats).id = chat_id THEN ChatsWithout(Tail(chats), chat_id)
    ELSE <<Head(chats)>> \o ChatsWithout(Tail(chats), chat_id)

\* C12: after delete_chat(chat_id) succeeded for user u, u's chat list has
\* no chat with that id and every other chat of u keeps its content and
\* position, the chats collection has no document with that id and userId u,
\* chat_messages has no chunk with that chatId and userId u, and one
\* 'delete_chat' activity is logged; the documents of the other users stay.
\* When u has no user document (and the database answers) the call answers
\* 404 'User not found' and changes nothing.
C12_DeleteChat ==
    [][ (cresp'.op = "delete_chat" /\ cresp'.code # 401) =>
          LET u == cresp'.user
              chat_id == cresp'.chat_id
          IN  /\ cresp'.code = 200 =>
                    /\ u \in DOMAIN users /\ u \in DOMAIN users'
                    /\ users'[u].chats = ChatsWithout(users[u].chats, chat_id)
                    /\ \A i \in 1..Len(users'[u].chats) : users'[u].chats[i].id # chat_id
                    /\ \A v \in (DOMAIN users) \ {u} : v \in DOMAIN users' /\ users'[v] = users[v]
                    /\ \A i \in 1..Len(chats_coll') :
                          ~(chats_coll'[i].id = chat_id /\ chats_coll'[i].userId = u)
                    /\ \A c \in chat_messages' : ~(c.chatId = chat_id /\ c.userId = u)
                    /\ Len(user_activities') = Len(user_activities) + 1
                    /\ \A i \in 1..Len(user_activities) : user_activities'[i] = user_activities[i]
                    /\ user_activities'[Len(user_activities')] =
                          [userId |-> u, type |-> "delete_chat", chatId |-> chat_id,
                           newTitle |-> NoneStr]
              /\ (u \notin DOMAIN users /\ cresp'.failed = 0) =>
                    /\ cresp'.code = 404
                    /\ cresp'.detail = "User not found"
                    /\ UNCHANGED <<users, chats_coll, chat_messages, user_activities, sessions>>
              /\ cresp'.code = 404 => u \notin DOMAIN users
      ]_vars

\* u1 deleted one of two chats: the other one is still in the list, and the
\* document and the chunks u2 has under the same id are still there
C12_Witness ==
    /\ cresp.op = "delete_chat"
    /\ cresp.code = 200
    /\ cresp.user = "u1"
    /\ cresp.chat_id = "a"
    /\ Len(users["u1"].chats) = 1
    /\ \E i \in 1..Len(chats_coll) : chats_coll[i].id = "a" /\ chats_coll[i].userId = "u2"
    /\ \E i \in 1..Len(chats_coll) : chats_coll[i].id = "b" /\ chats_coll[i].userId = "u1"
    /\ \E c \in chat_messages : c.chatId = "a" /\ c.userId = "u2"
    /\ Len(user_activities) = 1

\* C13 as stated: update_chat_title answers 400 'Title is required' when the
\* title is missing or empty, 404 'User not found' when the user has no
\* document and 404 'Chat not found' when no chat of the user has the id;
\* logout answers 400 'User ID is required' when userId is missing; in each
\* of these cases no stored data is changed.
C13_ClientErrorsKeepTheirCode ==
    [][ /\ (cresp'.op = "update_chat_title" /\ cresp'.code # 401 /\ cresp'.failed = 0) =>
              LET u == cresp'.user
                  titleGiven == cresp'.title \notin {NoneStr, ""}
                  hasDoc == u \in DOMAIN users
                  hasChat == hasDoc /\ \E i \in 1..Len(users[u].chats) :
                                           users[u].chats[i].id = cresp'.chat_id
              IN  /\ ~titleGiven =>
                        cresp'.code = 400 /\ cresp'.detail = "Title is required"
                  /\ (titleGiven /\ ~hasDoc) =>
                        cresp'.code = 404 /\ cresp'.detail = "User not found"
                  /\ (titleGiven /\ hasDoc /\ ~hasChat) =>
                        cresp'.code = 404 /\ cresp'.detail = "Chat not found"
                  /\ ~(titleGiven /\ hasChat) =>
                        UNCHANGED <<users, chats_coll, chat_messages, user_activities, sessions>>
        /\ (cresp'.op = "logout" /\ cresp'.user \in {NoneStr, ""}) =>
              /\ cresp'.code = 400 /\ cresp'.detail = "User ID is required"
              /\ UNCHANGED <<users, chats_coll, chat_messages, user_activities, sessions>>
      ]_vars

-----------------------------------------------------------------------------
(* Properties of the sessions.                                              *)

NoActiveSession(ss, u) == \A i \in 1..Len(ss) : ~(ss[i].userId = u /\ ss[i].active)

\* C14: logout(u), when it completes, sets active = false and endTime on
\* every active session of u and leaves every other session as it was, so u
\* has no active session then; and a user without an active session gets
\* one only by a google_signin for that user.
C14_LogoutEndsSessions ==
    [][ /\ (cresp'.op = "logout" /\ cresp'.code = 200 /\ now' = now) =>
              /\ Len(sessions') = Len(sessions)
              /\ \A i \in 1..Len(sessions) :
                    IF sessions[i].userId = cresp'.user /\ sessions[i].active
                    THEN sessions'[i] = [userId |-> cresp'.user, active |-> FALSE,
                                         endTime |-> now]
                    ELSE sessions'[i] = sessions[i]
              /\ NoActiveSession(sessions', cresp'.user)
        /\ \A u \in UserIds :
              (NoActiveSession(sessions, u) /\ ~NoActiveSession(sessions', u))
                  => cresp'.op = "google_signin" /\ cresp'.user = u /\ cresp'.code = 200
      ]_vars

\* u1 signed in twice and logged out later: both sessions ended at the time
\* of the logout
C14_Witness ==
    /\ cresp.op = "logout"
    /\ cresp.code = 200
    /\ cresp.user = "u1"
    /\ now > 0
    /\ Len(sessions) = 2
    /\ \A i \in 1..2 : sessions[i] = [userId |-> "u1", active |-> FALSE, endTime |-> now]

====
